---- MODULE Spec2Model ----
(***************************************************************************)
(* Model of python-versioncontrol: the ServiceAPI facade, the three        *)
(* provider strategies (GitLab, GitHub, Bitbucket), the request helpers of *)
(* ServiceRequestsMixin and merge_dict.                                    *)
(*                                                                         *)
(* An operation of the facade is a sequential piece of Python that blocks  *)
(* on each HTTP round trip.  The model keeps the position of the running   *)
(* operation in pc and lets the remote service choose the outcome of each  *)
(* request that is in flight (a transport failure, or a status and body).  *)
(* Everything the code does between two round trips is one step.           *)
(***************************************************************************)
EXTENDS Integers, Sequences, FiniteSets, TLC

VARIABLES
    strategy,        \* ServiceAPI.strategy
    response,        \* ServiceAPI.response
    pc,              \* position of the running operation
    op,              \* the facade operation called last, with its arguments
    pending,         \* the HTTP request in flight
    cont,            \* the request that waits for self.username
    project_details, \* local variable of delete_project
    calls,           \* requests issued by the operation called last, in order
    replies,         \* what the service answered to them, in order
    ret,             \* outcome of the strategy call
    raised,          \* the error the facade operation raised to its caller
    prev,            \* history: ServiceAPI.response when the operation began
    lastReturned,    \* history: the last response a strategy call returned
    md               \* merge_dict called on its own: arguments and result

vars == <<strategy, response, pc, op, pending, cont, project_details, calls,
          replies, ret, raised, prev, lastReturned, md>>

facadeVars == <<strategy, response, pc, op, pending, cont, project_details,
                calls, replies, ret, raised, prev, lastReturned>>

----------------------------------------------------------------------------
(* Bounds and input domains *)

MaxName == 2

NamePool == <<"demo", "wrong", "other", "spare">>

\* project keys, slugs, paths
Names == {NamePool[i] : i \in 1..MaxName}

\* human-readable project names given to create_project
Titles == {"My Project!", NamePool[1]}

None == "<None>"

OAUTH_TOKEN == "abcdefg1234567"

USERNAME == "{self.username}"

ACCOUNT == "jdoe"

----------------------------------------------------------------------------
(* Python dictionaries are functions on a set of string keys *)

EmptyDict == << >>

Update(d, e) ==
    [k \in (DOMAIN d) \cup (DOMAIN e) |-> IF k \in DOMAIN e THEN e[k] ELSE d[k]]

Dict(items) == [type |-> "dict", items |-> items]

Str(text) == [type |-> "str", text |-> text]

PyNone == [type |-> "NoneType"]

PyList == [type |-> "list"]

----------------------------------------------------------------------------
(* base.py: merge_dict *)

\* kwargs_with_dict_values is a sequence of <<key, value>> pairs, in the
\* order of the keyword arguments; every value is a dictionary.
RECURSIVE merge_dict_replacing(_, _)
merge_dict_replacing(thedict, kwargs) ==
    IF kwargs = << >>
    THEN [raised |-> None, value |-> thedict]
    ELSE LET key == kwargs[1][1]
             value == kwargs[1][2]
         IN  IF key \in DOMAIN thedict /\ thedict[key].type # "dict"
             THEN [raised |-> "AttributeError", value |-> thedict]
             ELSE merge_dict_replacing(Update(thedict, key :> Dict(value)),
                                       Tail(kwargs))

RECURSIVE merge_dict(_, _)
merge_dict(thedict, kwargs) ==
    IF kwargs = << >>
    THEN [raised |-> None, value |-> thedict]
    ELSE LET key == kwargs[1][1]
             value == kwargs[1][2]
         IN  IF key \in DOMAIN thedict
             THEN IF thedict[key].type = "dict"
                  THEN merge_dict(
                          [thedict EXCEPT
                              ![key] = Dict(Update(thedict[key].items, value))],
                          Tail(kwargs))
                  ELSE [raised |-> "AttributeError", value |-> thedict]
             ELSE merge_dict(Update(thedict, key :> Dict(value)), Tail(kwargs))

----------------------------------------------------------------------------
(* HTTP responses *)

NonJSON == [type |-> "html"]

JSON(obj) == [type |-> "json", obj |-> obj]

Fail == [kind |-> "fail"]

Resp(status, body) == [kind |-> "resp", status |-> status, body |-> body]

\* base.py: JSONResponse.__init__
JSONResponse(reason, status_code) ==
    Resp(status_code, JSON("message" :> reason))

\* requests.Response.json
json(resp) ==
    IF resp.body.type = "json"
    THEN [raised |-> None, value |-> resp.body.obj]
    ELSE [raised |-> "JSONDecodeError", value |-> None]

raise_for_status_5xx_only(resp) ==
    IF resp.status >= 500 /\ resp.status < 600 THEN "HTTPError" ELSE None

\* requests.Response.raise_for_status
raise_for_status(resp) ==
    IF resp.status >= 400 /\ resp.status < 600 THEN "HTTPError" ELSE None

Statuses == {200, 404}

ErrorBody == JSON("message" :> "error")

UserBody == JSON(("login" :> ACCOUNT) @@ ("username" :> ACCOUNT))

DetailsBody(path, name) == JSON(("path" :> path) @@ ("name" :> name))

\* what the service may answer to GET user
UserResponses ==
    {Fail, Resp(200, UserBody), Resp(200, ErrorBody), Resp(200, NonJSON),
     Resp(404, ErrorBody)}

\* what the service may answer to GET <project>
DetailsResponses ==
    {Fail} \cup
    {Resp(s, b) : s \in Statuses,
                  b \in {NonJSON, ErrorBody} \cup
                        {DetailsBody(p, n) : p \in Names, n \in Names}}

\* what the service may answer to any other request
OtherResponses ==
    {Fail} \cup
    {Resp(s, b) : s \in Statuses,
                  b \in {NonJSON, ErrorBody, DetailsBody(NamePool[1], NamePool[1])}}

----------------------------------------------------------------------------
(* base.py: ServiceRequestsMixin and ServiceAPIStrategy *)

DEFAULT_TIMEOUT == 30

HTTP400_DELETION_REFUSED ==
    JSONResponse("Slug does not match project. Deletion refused.", 400)

\* ServiceAPIStrategy.__init__ followed by ServiceRequestsMixin.__init__
ServiceAPIStrategy(cls, base_url, oauth_token, headers) ==
    [cls |-> cls,
     base_url |-> base_url,
     headers |-> Update(headers, "Authorization" :> ("Bearer " \o oauth_token)),
     timeout |-> DEFAULT_TIMEOUT]

RECURSIVE Join(_, _)
Join(sep, segs) ==
    IF Len(segs) = 1 THEN segs[1] ELSE segs[1] \o sep \o Join(sep, Tail(segs))

\* '/'.join raises a TypeError on a segment that is not a string
url_for_endpoint(self, endpoint, args) ==
    IF \E i \in 1..Len(args) : args[i] = None
    THEN [raised |-> "TypeError", value |-> None]
    ELSE [raised |-> None, value |-> Join("/", <<self.base_url, endpoint>> \o args)]

\* the body shared by get, post, put and delete
request(self, method, endpoint, args, kwargs) ==
    LET url == url_for_endpoint(self, endpoint, args)
        merged == merge_dict(kwargs, << <<"headers", self.headers>> >>)
    IN  IF url.raised # None THEN [raised |-> url.raised, value |-> None]
        ELSE IF merged.raised # None THEN [raised |-> merged.raised, value |-> None]
        ELSE [raised |-> None,
              value |-> [method |-> method, url |-> url.value,
                         timeout |-> self.timeout, kwargs |-> merged.value]]

\* a call of self.get/post/put/delete that a strategy method makes; next
\* tells what the method does with the response
Call(method, endpoint, args, kwargs, next) ==
    [kind |-> "call", method |-> method, endpoint |-> endpoint, args |-> args,
     kwargs |-> kwargs, next |-> next]

get(endpoint, args, kwargs, next) == Call("GET", endpoint, args, kwargs, next)

post(endpoint, args, kwargs, next) == Call("POST", endpoint, args, kwargs, next)

put(endpoint, args, kwargs, next) == Call("PUT", endpoint, args, kwargs, next)

delete(endpoint, args, kwargs, next) == Call("DELETE", endpoint, args, kwargs, next)

Raise(error) == [kind |-> "raise", error |-> error]

\* django.template.defaultfilters.slugify on the titles of the model
slugify(name) == IF name = "My Project!" THEN "my-project" ELSE name

----------------------------------------------------------------------------
(* gitlab.py: GitLabStrategy.  A method is the call it makes first; an *)
(* argument USERNAME stands for the value of the property self.username, *)
(* which the method reads before it makes the call.                      *)

GitLabStrategy(oauth_token) ==
    ServiceAPIStrategy("GitLabStrategy", "https://gitlab.com/api/v4",
                       oauth_token, EmptyDict)

GitLabStrategy_create_project(name, slug, kwargs) ==
    LET default_settings ==
            [builds_enabled |-> TRUE,
             issues_enabled |-> FALSE,
             merge_requests_enabled |-> TRUE,
             name |-> name,
             path |-> slug,
             public |-> FALSE,
             public_builds |-> FALSE,
             snippets_enabled |-> FALSE,
             wiki_enabled |-> FALSE]
    IN  post("projects", << >>,
             "params" :> Dict(Update(default_settings, kwargs)), "return")

GitLabStrategy_update_project(key, slug, kwargs) ==
    LET mappings == [path |-> slug]
    IN  put("projects", <<key>>, "params" :> Dict(Update(mappings, kwargs)),
            "return")

GitLabStrategy_project_details_by_user(key, next) ==
    get("projects", <<USERNAME, key>>, EmptyDict, next)

GitLabStrategy_project_details(key, next) ==
    get("projects", <<key>>, EmptyDict, next)

GitLabStrategy_delete_project(key, slug) ==
    GitLabStrategy_project_details(key, "verify")

GitLabStrategy_list_projects ==
    get("projects", << >>, EmptyDict, "return")

GitLabStrategy_add_deploy_key(project_id, key_title, ssh_key, read_only) ==
    LET payload ==
            [id |-> project_id,
             title |-> key_title,
             key |-> ssh_key,
             can_push |-> ~read_only]
    IN  post("projects", <<project_id, "deploy_keys">>,
             "params" :> Dict(payload), "return")

----------------------------------------------------------------------------
(* github.py: GitHubStrategy *)

GitHubStrategy(oauth_token) ==
    ServiceAPIStrategy("GitHubStrategy", "https://api.github.com", oauth_token,
                       "Accept" :> "application/vnd.github.v3+json")

GitHubStrategy_create_project(name, slug, kwargs) ==
    LET default_settings ==
            [has_issues |-> FALSE,
             has_wiki |-> FALSE,
             name |-> IF slug # None THEN slug ELSE slugify(name),
             private |-> FALSE]
    IN  post("user", <<"repos">>,
             "json" :> Dict(Update(default_settings, kwargs)), "return")

GitHubStrategy_update_project(key, slug, kwargs) ==
    LET mappings == Update(EmptyDict, kwargs)
    IN  put("repos", <<USERNAME, key>>, "json" :> Dict(mappings), "return")

GitHubStrategy_project_details(key, next) ==
    get("repos", <<USERNAME, key>>, EmptyDict, next)

GitHubStrategy_delete_project(key, slug) ==
    GitHubStrategy_project_details(key, "verify")

GitHubStrategy_list_projects ==
    get("user", <<"repos">>, EmptyDict, "return")

\* data=json.dumps(payload): the payload travels as JSON text
GitHubStrategy_add_deploy_key(project_id, key_title, ssh_key, read_only) ==
    LET payload ==
            [title |-> key_title,
             key |-> ssh_key,
             read_only |-> read_only]
    IN  post("repos", <<USERNAME, project_id, "keys">>,
             "data" :> Str(JSON(payload)), "return")

----------------------------------------------------------------------------
(* bitbucket.py: BitbucketStrategy *)

BitbucketStrategy(oauth_token) ==
    ServiceAPIStrategy("BitbucketStrategy", "https://api.bitbucket.org/2.0",
                       oauth_token, EmptyDict)

BitbucketStrategy_create_project(name, slug, kwargs) ==
    LET default_settings ==
            [has_issues |-> FALSE,
             has_wiki |-> FALSE,
             is_private |-> TRUE,
             name |-> name,
             scm |-> "git"]
        slug_ == IF slug = None THEN slugify(name) ELSE slug
    IN  post("repositories", <<USERNAME, slug_>>,
             "json" :> Dict(Update(default_settings, kwargs)), "return")

BitbucketStrategy_update_project(key, slug, kwargs) ==
    LET mappings == Update(EmptyDict, kwargs)
    IN  put("repositories", <<USERNAME, slug>>, "json" :> Dict(mappings),
            "return")

BitbucketStrategy_project_details(key, next) ==
    get("repositories", <<USERNAME, key>>, EmptyDict, next)

BitbucketStrategy_delete_project(key, slug) ==
    BitbucketStrategy_project_details(key, "verify")

BitbucketStrategy_list_projects ==
    get("repositories", <<USERNAME>>, EmptyDict, "return")

BitbucketStrategy_add_deploy_key_posting(project_id, key_title, ssh_key, read_only) ==
    GitHubStrategy_add_deploy_key(project_id, key_title, ssh_key, read_only)

BitbucketStrategy_add_deploy_key(project_id, key_title, ssh_key, read_only) ==
    Raise("NotImplementedError")

----------------------------------------------------------------------------
(* The parts of the strategies that differ by class only *)

\* the key of the user details that the property username returns
username_field(self) ==
    IF self.cls = "GitHubStrategy" THEN "login" ELSE "username"

\* the key of the project details that delete_project compares with slug
identifying_field(self) ==
    IF self.cls = "BitbucketStrategy" THEN "name" ELSE "path"

slug_accepted_always(self, details, slug) == TRUE

\* the condition of delete_project, once the key is known to be there
slug_accepted(self, details, slug) ==
    details[identifying_field(self)] = slug

delete_after_verification_by_slug(self, key, slug) ==
    CASE self.cls = "GitLabStrategy" -> delete("projects", <<slug>>, EmptyDict, "return")
      [] self.cls = "GitHubStrategy" -> delete("repos", <<USERNAME, slug>>, EmptyDict, "return")
      [] self.cls = "BitbucketStrategy" ->
            delete("repositories", <<USERNAME, slug>>, EmptyDict, "return")

\* the call delete_project makes when the slug matches
delete_after_verification(self, key, slug) ==
    CASE self.cls = "GitLabStrategy" -> delete("projects", <<key>>, EmptyDict, "return")
      [] self.cls = "GitHubStrategy" -> delete("repos", <<USERNAME, key>>, EmptyDict, "return")
      [] self.cls = "BitbucketStrategy" ->
            delete("repositories", <<USERNAME, slug>>, EmptyDict, "return")

----------------------------------------------------------------------------
(* Dispatch of a strategy method on the class of the strategy *)

strategy_call(self, o) ==
    CASE self.cls = "GitLabStrategy" ->
           (CASE o.name = "create_project" ->
                    GitLabStrategy_create_project(o.name_, o.slug, o.kwargs)
              [] o.name = "update_project" ->
                    GitLabStrategy_update_project(o.key, o.slug, o.kwargs)
              [] o.name = "delete_project" ->
                    GitLabStrategy_delete_project(o.key, o.slug)
              [] o.name = "list_projects" -> GitLabStrategy_list_projects
              [] o.name = "project_details" ->
                    GitLabStrategy_project_details(o.key, "return")
              [] o.name = "add_deploy_key" ->
                    GitLabStrategy_add_deploy_key(o.project_id, o.key_title,
                                                  o.ssh_key, o.read_only))
      [] self.cls = "GitHubStrategy" ->
           (CASE o.name = "create_project" ->
                    GitHubStrategy_create_project(o.name_, o.slug, o.kwargs)
              [] o.name = "update_project" ->
                    GitHubStrategy_update_project(o.key, o.slug, o.kwargs)
              [] o.name = "delete_project" ->
                    GitHubStrategy_delete_project(o.key, o.slug)
              [] o.name = "list_projects" -> GitHubStrategy_list_projects
              [] o.name = "project_details" ->
                    GitHubStrategy_project_details(o.key, "return")
              [] o.name = "add_deploy_key" ->
                    GitHubStrategy_add_deploy_key(o.project_id, o.key_title,
                                                  o.ssh_key, o.read_only))
      [] self.cls = "BitbucketStrategy" ->
           (CASE o.name = "create_project" ->
                    BitbucketStrategy_create_project(o.name_, o.slug, o.kwargs)
              [] o.name = "update_project" ->
                    BitbucketStrategy_update_project(o.key, o.slug, o.kwargs)
              [] o.name = "delete_project" ->
                    BitbucketStrategy_delete_project(o.key, o.slug)
              [] o.name = "list_projects" -> BitbucketStrategy_list_projects
              [] o.name = "project_details" ->
                    BitbucketStrategy_project_details(o.key, "return")
              [] o.name = "add_deploy_key" ->
                    BitbucketStrategy_add_deploy_key(o.project_id, o.key_title,
                                                     o.ssh_key, o.read_only))

----------------------------------------------------------------------------
(* The running operation *)

NoRequest == [method |-> None]

NoCall == [kind |-> "none"]

NoReturn == [kind |-> "none"]

Returned(resp) == [kind |-> "returned", response |-> resp]

Raised(error) == [kind |-> "raised", error |-> error]

Range(seq) == {seq[i] : i \in 1..Len(seq)}

\* The strategy call is over with outcome r.  The facade then runs
\*     self.response = response.json()
\*     response.raise_for_status()
\* unless the strategy call raised, which ends the facade operation at once.
Return(r, calls_, replies_) ==
    /\ pc' = "idle"
    /\ pending' = NoRequest
    /\ cont' = NoCall
    /\ calls' = calls_
    /\ replies' = replies_
    /\ ret' = r
    /\ IF r.kind = "raised"
       THEN /\ raised' = r.error
            /\ UNCHANGED <<response, lastReturned>>
       ELSE /\ lastReturned' = r.response
            /\ IF json(r.response).raised # None
               THEN /\ raised' = json(r.response).raised
                    /\ UNCHANGED response
               ELSE /\ response' = json(r.response).value
                    /\ raised' = raise_for_status(r.response)

\* The strategy method goes on to the call `plan`: it reads self.username
\* first when the call names it, and it sends the request otherwise.
Proceed(plan, calls_, replies_) ==
    IF plan.kind = "raise"
    THEN Return(Raised(plan.error), calls_, replies_)
    ELSE IF USERNAME \in Range(plan.args)
    THEN LET req == request(strategy, "GET", "user", << >>, EmptyDict)
         IN  /\ pc' = "username"
             /\ pending' = req.value
             /\ cont' = plan
             /\ calls' = Append(calls_, req.value)
             /\ replies' = replies_
             /\ ret' = NoReturn
             /\ raised' = None
             /\ UNCHANGED <<response, lastReturned>>
    ELSE LET req == request(strategy, plan.method, plan.endpoint, plan.args,
                            plan.kwargs)
         IN  IF req.raised # None
             THEN Return(Raised(req.raised), calls_, replies_)
             ELSE /\ pc' = plan.next
                  /\ pending' = req.value
                  /\ cont' = NoCall
                  /\ calls' = Append(calls_, req.value)
                  /\ replies' = replies_
                  /\ ret' = NoReturn
                  /\ raised' = None
                  /\ UNCHANGED <<response, lastReturned>>

\* A facade operation is called: the strategy method starts.
Begin(o) ==
    /\ pc = "idle"
    /\ op' = o
    /\ prev' = response
    /\ project_details' = PyNone
    /\ UNCHANGED <<strategy, md>>

----------------------------------------------------------------------------
(* base.py: the six operations of ServiceAPI *)

\* keyword arguments a caller passes on to create_project: nothing, or one
\* of the visibility fields of the three services
CreateKwargs ==
    {EmptyDict} \cup
    {f :> b : f \in {"public", "private", "is_private"}, b \in BOOLEAN}

UpdateKwargs == {EmptyDict, "description" :> "text"}

ServiceAPI_create_project ==
    \E name \in Titles, slug \in Names \cup {None}, kwargs \in CreateKwargs :
        LET o == [name |-> "create_project", name_ |-> name, slug |-> slug,
                  kwargs |-> kwargs]
        IN  /\ Begin(o)
            /\ Proceed(strategy_call(strategy, o), << >>, << >>)

ServiceAPI_update_project ==
    \E key \in Names, slug \in Names \cup {None}, kwargs \in UpdateKwargs :
        LET o == [name |-> "update_project", key |-> key, slug |-> slug,
                  kwargs |-> kwargs]
        IN  /\ Begin(o)
            /\ Proceed(strategy_call(strategy, o), << >>, << >>)

ServiceAPI_delete_project ==
    \E key \in Names, slug \in Names :
        LET o == [name |-> "delete_project", key |-> key, slug |-> slug]
        IN  /\ Begin(o)
            /\ Proceed(strategy_call(strategy, o), << >>, << >>)

ServiceAPI_list_projects ==
    LET o == [name |-> "list_projects"]
    IN  /\ Begin(o)
        /\ Proceed(strategy_call(strategy, o), << >>, << >>)

ServiceAPI_project_details ==
    \E key \in Names :
        LET o == [name |-> "project_details", key |-> key]
        IN  /\ Begin(o)
            /\ Proceed(strategy_call(strategy, o), << >>, << >>)

ServiceAPI_add_deploy_key ==
    \E project_id \in Names, read_only \in BOOLEAN :
        LET o == [name |-> "add_deploy_key", project_id |-> project_id,
                  key_title |-> "deploy", ssh_key |-> "ssh-rsa AAAA",
                  read_only |-> read_only]
        IN  /\ Begin(o)
            /\ Proceed(strategy_call(strategy, o), << >>, << >>)

----------------------------------------------------------------------------
(* The service answers the request in flight *)

\* the property username of GitHubStrategy and BitbucketStrategy:
\*     user_details = self.get_json_or_raise('user')
\*     return user_details[<field>]
\* and then the call that waited for it
username ==
    /\ pc = "username"
    /\ \E r \in UserResponses :
        LET replies_ == Append(replies, r)
        IN  IF r = Fail
            THEN Return(Raised("ConnectionError"), calls, replies_)
            ELSE IF raise_for_status(r) # None
            THEN Return(Raised(raise_for_status(r)), calls, replies_)
            ELSE IF json(r).raised # None
            THEN Return(Raised(json(r).raised), calls, replies_)
            ELSE IF username_field(strategy) \notin DOMAIN json(r).value
            THEN Return(Raised("KeyError"), calls, replies_)
            ELSE LET name == json(r).value[username_field(strategy)]
                     args == [i \in DOMAIN cont.args |->
                                 IF cont.args[i] = USERNAME THEN name
                                 ELSE cont.args[i]]
                 IN  Proceed([cont EXCEPT !.args = args], calls, replies_)
    /\ UNCHANGED <<strategy, op, prev, project_details, md>>

\* delete_project of the three strategies, from the response of
\* self.project_details(key) on:
\*     response.raise_for_status()
\*     project_details = response.json()
\*     if project_details[<field>] == slug:
\*         return self.delete(...)
\*     return self.HTTP400_DELETION_REFUSED
delete_project ==
    /\ pc = "verify"
    /\ \E r \in DetailsResponses :
        LET replies_ == Append(replies, r)
        IN  IF r = Fail
            THEN /\ Return(Raised("ConnectionError"), calls, replies_)
                 /\ UNCHANGED project_details
            ELSE IF raise_for_status(r) # None
            THEN /\ Return(Raised(raise_for_status(r)), calls, replies_)
                 /\ UNCHANGED project_details
            ELSE IF json(r).raised # None
            THEN /\ Return(Raised(json(r).raised), calls, replies_)
                 /\ UNCHANGED project_details
            ELSE /\ project_details' = json(r).value
                 /\ IF identifying_field(strategy) \notin DOMAIN json(r).value
                    THEN Return(Raised("KeyError"), calls, replies_)
                    ELSE IF slug_accepted(strategy, json(r).value, op.slug)
                    THEN Proceed(delete_after_verification(strategy, op.key, op.slug),
                                 calls, replies_)
                    ELSE Return(Returned(HTTP400_DELETION_REFUSED), calls,
                                replies_)
    /\ UNCHANGED <<strategy, op, prev, md>>

\* the strategy method returns the raw response of the call it made last
return ==
    /\ pc = "return"
    /\ \E r \in OtherResponses :
        LET replies_ == Append(replies, r)
        IN  IF r = Fail
            THEN Return(Raised("ConnectionError"), calls, replies_)
            ELSE Return(Returned(r), calls, replies_)
    /\ UNCHANGED <<strategy, op, prev, project_details, md>>

----------------------------------------------------------------------------
(* The facade *)

Strategies ==
    {GitLabStrategy(OAUTH_TOKEN), GitHubStrategy(OAUTH_TOKEN), BitbucketStrategy(OAUTH_TOKEN)}

NoOp == [name |-> None]

NoMerge == [state |-> "unused"]

\* ServiceAPI.__init__
Init ==
    /\ strategy \in Strategies
    /\ response = PyNone
    /\ pc = "idle"
    /\ op = NoOp
    /\ pending = NoRequest
    /\ cont = NoCall
    /\ project_details = PyNone
    /\ calls = << >>
    /\ replies = << >>
    /\ ret = NoReturn
    /\ raised = None
    /\ prev = PyNone
    /\ lastReturned = PyNone
    /\ md = NoMerge

Next ==
    \/ ServiceAPI_create_project
    \/ ServiceAPI_update_project
    \/ ServiceAPI_delete_project
    \/ ServiceAPI_list_projects
    \/ ServiceAPI_project_details
    \/ ServiceAPI_add_deploy_key
    \/ username
    \/ delete_project
    \/ return

Spec == Init /\ [][Next]_vars

----------------------------------------------------------------------------
(* merge_dict on its own: the arguments are drawn, then the call is made *)

ItemKeys == {"a", "b"}

MaxItemValue == 2

ItemValues == 1..MaxItemValue

\* dictionaries with some of the keys a, b
Items ==
    UNION {[ks -> ItemValues] : ks \in SUBSET ItemKeys}

MergeKeys == {"headers", "params"}

\* values that are not dictionaries: a string, None, a list
NonDicts == {Str("text"), PyNone, PyList}

MergeTargets ==
    UNION {[ks -> {Dict(i) : i \in Items} \cup NonDicts] : ks \in SUBSET MergeKeys}

\* one or two keyword arguments with distinct keys
MergeKwargs ==
    {<< <<k, v>> >> : k \in MergeKeys, v \in Items} \cup
    {<< <<ks[1], v1>>, <<ks[2], v2>> >> :
        ks \in {p \in MergeKeys \X MergeKeys : p[1] # p[2]},
        v1 \in Items, v2 \in Items}

InitMerge ==
    /\ strategy = GitLabStrategy(OAUTH_TOKEN)
    /\ response = PyNone
    /\ pc = "idle"
    /\ op = NoOp
    /\ pending = NoRequest
    /\ cont = NoCall
    /\ project_details = PyNone
    /\ calls = << >>
    /\ replies = << >>
    /\ ret = NoReturn
    /\ raised = None
    /\ prev = PyNone
    /\ lastReturned = PyNone
    /\ \E thedict \in MergeTargets, kwargs \in MergeKwargs :
          md = [state |-> "called", thedict |-> thedict, kwargs |-> kwargs]

merge_dict_call ==
    /\ md.state = "called"
    /\ md' = [state |-> "returned", thedict |-> md.thedict, kwargs |-> md.kwargs,
              result |-> merge_dict(md.thedict, md.kwargs)]
    /\ UNCHANGED facadeVars

NextMerge == merge_dict_call

SpecMerge == InitMerge /\ [][NextMerge]_vars

----------------------------------------------------------------------------
(* Vocabulary of the properties *)

REFUSED == "Slug does not match project. Deletion refused."

UserUrl == strategy.base_url \o "/user"

\* the request is the lookup made by the property username
IsUserLookup(c) == c.method = "GET" /\ c.url = UserUrl

DeleteCalls == {i \in 1..Len(calls) : calls[i].method = "DELETE"}

\* the GET of self.project_details(key) inside delete_project
VerificationCalls ==
    {i \in 1..Len(calls) : calls[i].method = "GET" /\ ~IsUserLookup(calls[i])}

InDelete == op.name = "delete_project"

\* delete_project has fetched and decoded the details, and they carry the
\* field that it compares with slug
Fetched ==
    /\ InDelete
    /\ project_details # PyNone
    /\ identifying_field(strategy) \in DOMAIN project_details

FetchedField == project_details[identifying_field(strategy)]

\* the path of the project to delete, as the services define it
ProviderDeleteUrl ==
    CASE strategy.cls = "GitLabStrategy" ->
            "https://gitlab.com/api/v4/projects/" \o op.key
      [] strategy.cls = "GitHubStrategy" ->
            "https://api.github.com/repos/" \o ACCOUNT \o "/" \o op.key
      [] strategy.cls = "BitbucketStrategy" ->
            "https://api.bitbucket.org/2.0/repositories/" \o ACCOUNT \o "/" \o op.slug

\* the payload of a create or update request
Payload(c) ==
    IF "params" \in DOMAIN c.kwargs THEN c.kwargs["params"].items
    ELSE c.kwargs["json"].items

VisibilityField ==
    CASE strategy.cls = "GitLabStrategy" -> "public"
      [] strategy.cls = "GitHubStrategy" -> "private"
      [] strategy.cls = "BitbucketStrategy" -> "is_private"

\* the value of the visibility field that keeps a project out of the public
PrivateValue == strategy.cls # "GitLabStrategy"

CreateCalls == {i \in 1..Len(calls) : calls[i].method = "POST"}

----------------------------------------------------------------------------
(* C1 *)

----------------------------------------------------------------------------
(* C2 *)

\* C2 as stated: when the details were fetched and the identifying field
\* equals slug, delete_project issues exactly one DELETE, to the path of the
\* project on that service, and returns the raw response to it.
C2_Original ==
    (pc = "idle" /\ Fetched /\ FetchedField = op.slug) =>
        /\ Cardinality(DeleteCalls) = 1
        /\ \A i \in DeleteCalls :
              /\ calls[i].url = ProviderDeleteUrl
              /\ replies[i] # Fail => ret = Returned(replies[i])

\* C2 amended: with a matching slug, GitLab issues exactly one DELETE; GitHub
\* and Bitbucket read self.username once more first and issue exactly one
\* DELETE when that lookup succeeds, none when it fails (its error is then
\* raised).  The DELETE is the last request, it goes to the path of the
\* project on that service, and its raw response is returned; a transport
\* failure of the DELETE is raised.
C2_MatchDeletesOnce ==
    (pc = "idle" /\ Fetched /\ FetchedField = op.slug) =>
        /\ Cardinality(DeleteCalls) <= 1
        /\ DeleteCalls = {} =>
              /\ strategy.cls # "GitLabStrategy"
              /\ Len(calls) = 3
              /\ IsUserLookup(calls[3])
              /\ replies[3] # Resp(200, UserBody)
              /\ ret.kind = "raised"
        /\ \A i \in DeleteCalls :
              /\ i = Len(calls)
              /\ i = IF strategy.cls = "GitLabStrategy" THEN 2 ELSE 4
              /\ calls[i].url = ProviderDeleteUrl
              /\ replies[i] # Fail => ret = Returned(replies[i])
              /\ replies[i] = Fail => ret = Raised("ConnectionError")

C2_Witness ==
    /\ pc = "idle"
    /\ Fetched
    /\ FetchedField = op.slug
    /\ op.key # op.slug
    /\ DeleteCalls # {}
    /\ ret.kind = "returned"
    /\ strategy.cls = "GitHubStrategy"

----------------------------------------------------------------------------
(* C3 *)

\* the service answered the verification GET with a 4xx or 5xx status
VerificationFailed ==
    /\ InDelete
    /\ \E i \in VerificationCalls :
          /\ i <= Len(replies)
          /\ replies[i] # Fail
          /\ replies[i].status >= 400
          /\ replies[i].status < 600

\* C3: when the fetch of the project details inside delete_project comes
\* back with a 4xx or 5xx status, delete_project raises and no DELETE is
\* issued, whatever key and slug are.
C3_FailedFetchRaises ==
    VerificationFailed =>
        /\ pc = "idle"
        /\ ret = Raised("HTTPError")
        /\ raised = "HTTPError"
        /\ DeleteCalls = {}

\* the failed fetch carried details that match the slug
C3_Witness ==
    /\ VerificationFailed
    /\ pc = "idle"
    /\ \E i \in VerificationCalls :
          /\ replies[i].body.type = "json"
          /\ identifying_field(strategy) \in DOMAIN replies[i].body.obj
          /\ replies[i].body.obj[identifying_field(strategy)] = op.slug

----------------------------------------------------------------------------
(* C4 *)

\* C4 as stated: whenever the strategy returns a response with a 4xx or 5xx
\* status, the facade operation raises and ServiceAPI.response then holds the
\* decoded JSON body of that response.
C4_Original ==
    (pc = "idle" /\ ret.kind = "returned" /\ raise_for_status(ret.response) # None) =>
        /\ raised # None
        /\ json(ret.response).raised = None
        /\ response = json(ret.response).value

----------------------------------------------------------------------------
(* C5 *)

\* C5 as stated: create_project called without a visibility field sends a
\* payload whose visibility field says private (GitLab public = false,
\* GitHub private = true, Bitbucket is_private = true), and a visibility
\* field given by the caller overrides the default.
C5_Original ==
    op.name = "create_project" =>
        \A i \in CreateCalls :
            /\ VisibilityField \in DOMAIN Payload(calls[i])
            /\ IF VisibilityField \in DOMAIN op.kwargs
               THEN Payload(calls[i])[VisibilityField] = op.kwargs[VisibilityField]
               ELSE Payload(calls[i])[VisibilityField] = PrivateValue

----------------------------------------------------------------------------
(* C6 *)

\* C6 as stated: every public operation of every strategy issues at most two
\* HTTP calls in total.
C6_Original == Len(calls) <= 2

\* C6 amended: every public operation issues at most two HTTP calls besides
\* the lookups of self.username.  GitLab makes no lookup, so at most two
\* calls in total.  GitHub and Bitbucket make one lookup (GET user) right
\* before every request whose path holds the username, so an operation
\* issues at most four calls in total, and four are issued by safe-delete
\* only: GET user, GET project, GET user, DELETE.
C6_AtMostFourCalls ==
    /\ Len(calls) <= 4
    /\ Cardinality({i \in 1..Len(calls) : ~IsUserLookup(calls[i])}) <= 2
    /\ strategy.cls = "GitLabStrategy" => Len(calls) <= 2
    /\ ~InDelete => Len(calls) <= 2
    /\ \A i \in 1..Len(calls) :
          IsUserLookup(calls[i]) =>
              /\ strategy.cls # "GitLabStrategy"
              /\ i \in {1, 3}
    /\ Len(calls) = 4 => calls[4].method = "DELETE" /\ calls[2].method = "GET"

C6_Witness ==
    /\ pc = "idle"
    /\ Len(calls) = 4
    /\ Len(replies) = 4
    /\ ret.kind = "returned"

----------------------------------------------------------------------------
(* C7 *)

\* C7: add_deploy_key on the Bitbucket strategy fails at once with a
\* NotImplementedError and issues no HTTP call, not even a username lookup.
C7_BitbucketDeployKeyUnsupported ==
    (op.name = "add_deploy_key" /\ strategy.cls = "BitbucketStrategy") =>
        /\ pc = "idle"
        /\ calls = << >>
        /\ replies = << >>
        /\ ret = Raised("NotImplementedError")
        /\ raised = "NotImplementedError"

C7_Witness ==
    /\ op.name = "add_deploy_key"
    /\ strategy.cls = "BitbucketStrategy"
    /\ raised = "NotImplementedError"
    /\ ~op.read_only

----------------------------------------------------------------------------
(* C8 *)

MergeArgKeys == {md.kwargs[i][1] : i \in 1..Len(md.kwargs)}

----------------------------------------------------------------------------
(* C9 *)

\* C9 as stated: in delete_project the DELETE goes to the resource path of
\* the verification GET that came before it, for every key and slug.
C9_Original ==
    InDelete =>
        \A i \in DeleteCalls : \A j \in VerificationCalls :
            calls[i].url = calls[j].url

----------------------------------------------------------------------------
(* C10 *)

\* ServiceAPI.response holds the decoded body of the last response that a
\* strategy call returned, or None when none returned one
SlotHoldsLastReturned ==
    IF lastReturned = PyNone
    THEN response = PyNone
    ELSE /\ json(lastReturned).raised = None
         /\ response = json(lastReturned).value

\* C10 as stated: when a facade operation fails because the strategy call
\* raised, ServiceAPI.response is left as it was, it still holds the decoded
\* body of the last operation whose strategy call returned a response (None
\* if there was none), and ServiceAPI.strategy is unchanged.
C10_Original ==
    [][(pc' = "idle" /\ ret'.kind = "raised") =>
          /\ response' = response
          /\ response' = prev'
          /\ strategy' = strategy
          /\ SlotHoldsLastReturned']_vars

====
